---- MODULE Spec2Model ----
(***************************************************************************)
(* Sample-table model of mp4writer: the demuxer's sample index, timestamp  *)
(* lookup, seek window and bulk fetch (MP4PullDemuxer.ts), and the muxer's *)
(* sample accumulation and assembly (MP4PushEncoderMuxer.ts).              *)
(*                                                                         *)
(* Times are kept exact: a value in seconds is a quotient ticks/timescale, *)
(* and every timescale of the model divides 1000, so the millisecond       *)
(* values the code computes in floating point are integers here.           *)
(***************************************************************************)
EXTENDS Integers, Sequences, FiniteSets, TLC

\* ------------------------------------------------------------------ bounds

\* longest track of the structured family (sync placement, B-frame swap)
MaxSamples == 22
\* longest track of the exhaustive families (timing, layout)
MaxSmall == 2
\* largest composition timestamp, in ticks, of the timing family
MaxTick == 2
\* largest sample size, in bytes, of the layout family
MaxSize == 1
\* most promises getVideoDecoderConfig is left to create in one run
MaxPending == 2

\* ------------------------------------------------------------- constants

MIN_DECODER_QUEUE_SIZE == 20

DEFAULT_COMPATIBLE_BRANDS == <<"mp42", "isom", "iso2", "iso5", "avc1", "mp41">>

\* ....ftypmp42....mp42isomiso2iso5avc1mp41....mdat
mdatStartOffset == 16 + 4 * Len(DEFAULT_COMPATIBLE_BRANDS) + 8

\* ------------------------------------------------------------ time.ts

\* sec = num / den
secToMs(num, den) == (num * 1000) \div den

\* ------------------------------------------------------- JS array helpers

Min2(a, b) == IF a <= b THEN a ELSE b
Max2(a, b) == IF a >= b THEN a ELSE b

\* Array.prototype.slice(start, end) for 0 <= start, end <= length
Slice(arr, start, end) == SubSeq(arr, start + 1, end)

\* Array.prototype.at(-1); only used on non-empty arrays
AtLast(arr) == arr[Len(arr)]

\* FindLastSync falling back to the first element when none has is_sync
RECURSIVE FindLastSync_FallsBackToFirst(_)
FindLastSync_FallsBackToFirst(arr) ==
  IF Len(arr) = 0 THEN 0
  ELSE IF arr[Len(arr)].is_sync \/ Len(arr) = 1 THEN Len(arr)
  ELSE FindLastSync_FallsBackToFirst(SubSeq(arr, 1, Len(arr) - 1))

\* position (1-based) of the last / first element with is_sync, 0 if none
RECURSIVE FindLastSync(_)
FindLastSync(arr) ==
  IF Len(arr) = 0 THEN 0
  ELSE IF arr[Len(arr)].is_sync THEN Len(arr)
  ELSE FindLastSync(SubSeq(arr, 1, Len(arr) - 1))

RECURSIVE FindFirstSyncFrom(_, _)
FindFirstSyncFrom(arr, i) ==
  IF i > Len(arr) THEN 0
  ELSE IF arr[i].is_sync THEN i
  ELSE FindFirstSyncFrom(arr, i + 1)

\* InsertByKey with an unstable comparison: an element goes before the
\* elements with an equal key
RECURSIVE InsertByKey_Unstable(_, _, _)
InsertByKey_Unstable(sorted, x, key) ==
  IF Len(sorted) = 0 THEN <<x>>
  ELSE IF AtLast(sorted)[key] < x[key] THEN Append(sorted, x)
  ELSE Append(InsertByKey_Unstable(SubSeq(sorted, 1, Len(sorted) - 1), x, key),
              AtLast(sorted))

\* Array.prototype.toSorted((a, b) => a[key] - b[key]): a stable sort, as an
\* insertion sort that puts an element behind the elements with an equal key
RECURSIVE InsertByKey(_, _, _)
InsertByKey(sorted, x, key) ==
  IF Len(sorted) = 0 THEN <<x>>
  ELSE IF AtLast(sorted)[key] <= x[key] THEN Append(sorted, x)
  ELSE Append(InsertByKey(SubSeq(sorted, 1, Len(sorted) - 1), x, key), AtLast(sorted))

RECURSIVE toSorted(_, _)
toSorted(arr, key) ==
  IF Len(arr) = 0 THEN <<>>
  ELSE InsertByKey(toSorted(SubSeq(arr, 1, Len(arr) - 1), key), AtLast(arr), key)

\* --------------------------------------------------- input files (tracks)

\* MP4Sample as mp4box lists it for a track: decode order, number = position
MP4Sample(number, cts, dts, duration, is_sync, offset, size, timescale) ==
  [number |-> number, cts |-> cts, dts |-> dts, duration |-> duration,
   is_sync |-> is_sync, offset |-> offset, size |-> size, timescale |-> timescale]

Timescales == {1, 2}

\* composition time of decode position d when every P/B pair is swapped
SwapCts(d, n) ==
  IF d >= 1 /\ d % 2 = 1 /\ d + 1 <= n - 1 THEN d + 1
  ELSE IF d >= 2 /\ d % 2 = 0 THEN d - 1
  ELSE d

\* sync placements of the structured family: none, one near the start,
\* or one near the start and a second one anywhere after it
SyncSets(n) ==
  {{}} \cup {{a} : a \in (0..1) \cap (0..(n - 1))}
       \cup {{a, b} : a \in (0..1) \cap (0..(n - 1)), b \in 0..(n - 1)}

LongTrack(n, syncs, swap) ==
  [i \in 1..n |->
     MP4Sample(i - 1, IF swap THEN SwapCts(i - 1, n) ELSE i - 1, i - 1, 1,
               (i - 1) \in syncs, mdatStartOffset + (i - 1), 1, 1)]

\* lengths around MIN_DECODER_QUEUE_SIZE + 1, where the window's end is clamped
LongTracks ==
  UNION {{LongTrack(n, syncs, swap) : syncs \in SyncSets(n), swap \in BOOLEAN} :
           n \in (MaxSamples - 1)..MaxSamples}

\* timing family: any composition times, every sample a sync sample, one
\* duration per track, either timescale
Durations == {1, 2}

TimingTrack(n, cts, dur, ts) ==
  [i \in 1..n |->
     MP4Sample(i - 1, cts[i], i - 1, dur, TRUE, mdatStartOffset + (i - 1), 1, ts)]

TimingTracks ==
  UNION {{TimingTrack(n, cts, dur, ts) :
            cts \in [1..n -> 0..MaxTick], dur \in Durations, ts \in Timescales} :
           n \in 1..MaxSmall}

\* order family: any composition times up to the track's length, decode times
\* all distinct or all equal, any sync placement
OrderTrack(n, cts, tied, syncs) ==
  [i \in 1..n |->
     MP4Sample(i - 1, cts[i], IF tied THEN 0 ELSE i - 1, 1,
               (i - 1) \in syncs, mdatStartOffset + (i - 1), 1, 1)]

OrderTracks ==
  UNION {{OrderTrack(n, cts, tied, syncs) :
            cts \in [1..n -> 0..(n - 1)], tied \in BOOLEAN,
            syncs \in SUBSET (0..(n - 1))} :
           n \in 1..MaxSmall}

\* layout family: any sizes (empty samples included), samples stored in
\* decode order or in reverse, presented in decode order or in reverse
RECURSIVE SumSizes(_, _)
SumSizes(sizes, S) ==
  IF S = {} THEN 0
  ELSE LET k == CHOOSE k \in S : TRUE IN sizes[k] + SumSizes(sizes, S \ {k})

LayoutTrack(n, sizes, backStored, backShown) ==
  [i \in 1..n |->
     MP4Sample(i - 1, IF backShown THEN n - i ELSE i - 1, i - 1, 1, TRUE,
               mdatStartOffset +
                 SumSizes(sizes, IF backStored THEN (i + 1)..n ELSE 1..(i - 1)),
               sizes[i], 1)]

LayoutTracks ==
  UNION {{LayoutTrack(n, sizes, backStored, backShown) :
            sizes \in [1..n -> 0..MaxSize], backStored \in BOOLEAN, backShown \in BOOLEAN} :
           n \in 1..MaxSmall}

\* a track without samples is a file mp4box accepts too
SmallTracks == {<<>>} \cup TimingTracks \cup OrderTracks \cup LayoutTracks

Tracks == SmallTracks \cup LongTracks

\* what mp4box reports to onReady: is there a video track, its samples, and
\* the state of its sample description
\* the failures of the sample description are tried on the shortest tracks
Infos ==
  {[video |-> TRUE, samples |-> tr, stsd |-> "ok"] : tr \in Tracks}
    \cup {[video |-> v, samples |-> tr, stsd |-> st] :
            v \in BOOLEAN, tr \in {t \in SmallTracks : Len(t) <= 1},
            st \in {"ok", "missing", "noConfigBox"}}

\* ------------------------------------------------------------------ state

VARIABLES
  demuxer,       \* the MP4PullDemuxer instance
  dpc,           \* position of the demuxer's onReady callback
  call,          \* the last public demuxer call and what it returned
  configCalls,   \* the promises getVideoDecoderConfig has created, oldest first
  muxer,         \* the MP4PushMuxerEncoder instance
  videoEncoder,  \* its VideoEncoder: state and frames not yet output
  audioEncoder,  \* its AudioEncoder: state and data not yet output
  mux,           \* the multiplexToBuffer call: position and outcome
  wait           \* an isConfigured call, its codec and the clock

dvars == <<demuxer, dpc, call, configCalls>>
mvars == <<muxer, videoEncoder, audioEncoder, mux>>
wvars == <<wait>>
vars == <<demuxer, dpc, call, configCalls, muxer, videoEncoder, audioEncoder, mux, wait>>

NoError == "null"

NoCall ==
  [op |-> "none", arg |-> 0, status |-> "ok", error |-> NoError,
   ptsIndex |-> -1, dtsIndex |-> -1, samples |-> <<>>,
   fetched |-> FALSE, fetchIn |-> <<>>, reads |-> <<>>,
   config |-> FALSE, trapped |-> NoError]

\* ---------------------------------------------------------- MP4PullDemuxer

DemuxerInit ==
  /\ demuxer = [videoSamples |-> <<>>, videoTrak |-> [loaded |-> FALSE, samples |-> <<>>],
                moov |-> FALSE, onVideoDecoderConfig |-> 0,
                videoDecoderConfig |-> FALSE, error |-> NoError,
                firstFramePtsOffsetMs |-> 0]
  /\ dpc = "parsing"
  /\ call = NoCall
  /\ configCalls = <<>>

_trapError(d, msg) == [d EXCEPT !.error = msg]

\* .toSorted((a, b) => a.cts - b.cts).map((s, i) => ({...s, ptsIndex: i, dtsIndex: s.number}))
IndexSamples(samples) ==
  LET sorted == toSorted(samples, "cts") IN
  [i \in 1..Len(sorted) |->
     [number |-> sorted[i].number, cts |-> sorted[i].cts, dts |-> sorted[i].dts,
      duration |-> sorted[i].duration, is_sync |-> sorted[i].is_sync,
      offset |-> sorted[i].offset, size |-> sorted[i].size,
      timescale |-> sorted[i].timescale,
      ptsIndex |-> i - 1, dtsIndex |-> sorted[i].number]]

\* onReady up to its await of VideoDecoder.isConfigSupported
onReady(info) ==
  /\ dpc = "parsing"
  /\ configCalls = <<>> \/ Len(info.samples) <= MaxSmall
  /\ LET d0 == [demuxer EXCEPT !.moov = TRUE] IN
     IF ~info.video
     THEN /\ demuxer' = _trapError(d0, "mp4 file without video track")
          /\ dpc' = "done"
     ELSE
       LET vs == IndexSamples(info.samples)
           d1 == [d0 EXCEPT !.videoTrak = [loaded |-> TRUE, samples |-> info.samples],
                            !.videoSamples = vs]
       IN
       IF Len(vs) = 0
       THEN \* this.videoSamples[0].cts throws a TypeError: the callback ends here
            /\ demuxer' = d1
            /\ dpc' = "done"
       ELSE
         LET d2 == [d1 EXCEPT !.firstFramePtsOffsetMs = secToMs(vs[1].cts, vs[1].timescale)] IN
         IF info.stsd = "missing"
         THEN /\ demuxer' = _trapError(d2, "mdia box not intact.")
              /\ dpc' = "done"
         ELSE IF info.stsd = "noConfigBox"
         THEN /\ demuxer' = _trapError(d2, "avcC, hvcC, vpcC, or av1C box not found")
              /\ dpc' = "done"
         ELSE /\ demuxer' = d2
              /\ dpc' = "awaitSupported"
  /\ UNCHANGED <<call, configCalls, mvars, wvars>>

\* a promise of getVideoDecoderConfig: pending, resolved with the
\* configuration, or rejected with an error
PendingPromise == [status |-> "pending", error |-> NoError]

TimedOut == "getVideoDecoderConfig timed out after 10s"

\* this.onVideoDecoderConfig(config): the callback registered last resolves
\* its promise, unless the timer has rejected it; the initial callback (0)
\* does nothing
Resolved(promises, registered) ==
  IF registered > 0 /\ promises[registered].status = "pending"
  THEN [promises EXCEPT ![registered].status = "resolved"]
  ELSE promises

\* onReady after the await; an unsupported configuration is tried on the
\* short tracks
onReadySupported(supported) ==
  /\ dpc = "awaitSupported"
  /\ supported \/ Len(demuxer.videoSamples) <= MaxSmall
  /\ demuxer' = IF supported
                THEN [demuxer EXCEPT !.videoDecoderConfig = TRUE]
                ELSE _trapError(demuxer, "VideoDecoder config not supported")
  /\ dpc' = "done"
  /\ configCalls' = IF supported THEN Resolved(configCalls, demuxer.onVideoDecoderConfig)
                    ELSE configCalls
  /\ UNCHANGED <<call, mvars, wvars>>

\* appendBuffer() fails: the file cannot be read, or mp4box rejects its bytes
appendBufferFailed ==
  /\ dpc = "parsing"
  /\ demuxer' = _trapError(demuxer, "unreadable input")
  /\ dpc' = "done"
  /\ UNCHANGED <<call, configCalls, mvars, wvars>>

\* getVideoDecoderConfig() when it settles at once: the trapped error, or the
\* configuration
ConfigResult(d) ==
  IF d.error # NoError THEN [NoCall EXCEPT !.op = "getVideoDecoderConfig", !.status = "error",
                                           !.error = d.error]
  ELSE [NoCall EXCEPT !.op = "getVideoDecoderConfig", !.config = TRUE]

\* offset-corrected start and length of a sample's presentation interval
CtsMs(sample, firstFramePtsOffsetMs) ==
  secToMs(sample.cts, sample.timescale) - firstFramePtsOffsetMs

DurationMs(sample) == secToMs(sample.duration, sample.timescale)

\* TimestampScan without the lower end of the interval
RECURSIVE TimestampScan_NoLowerEnd(_, _, _, _)
TimestampScan_NoLowerEnd(videoSamples, off, timestampMs, i) ==
  IF i > Len(videoSamples) THEN -1
  ELSE IF CtsMs(videoSamples[i], off) + DurationMs(videoSamples[i]) >= timestampMs
  THEN videoSamples[i].ptsIndex
  ELSE TimestampScan_NoLowerEnd(videoSamples, off, timestampMs, i + 1)

RECURSIVE TimestampScan(_, _, _, _)
TimestampScan(videoSamples, off, timestampMs, i) ==
  IF i > Len(videoSamples) THEN -1
  ELSE LET ctsMs == CtsMs(videoSamples[i], off)
           durationMs == DurationMs(videoSamples[i])
       IN IF ctsMs <= timestampMs /\ ctsMs + durationMs >= timestampMs
          THEN videoSamples[i].ptsIndex
          ELSE TimestampScan(videoSamples, off, timestampMs, i + 1)

timestampMsToPtsIndex(d, timestampMs) ==
  TimestampScan(d.videoSamples, d.firstFramePtsOffsetMs, timestampMs, 1)

\* DtsScan comparing the wrong index: find((s) => s.ptsIndex === dtsIndex)
RECURSIVE DtsScan_ComparesPtsIndex(_, _, _)
DtsScan_ComparesPtsIndex(videoSamples, dtsIndex, i) ==
  IF i > Len(videoSamples) THEN -1
  ELSE IF videoSamples[i].ptsIndex = dtsIndex THEN videoSamples[i].ptsIndex
  ELSE DtsScan_ComparesPtsIndex(videoSamples, dtsIndex, i + 1)

\* this.videoSamples.find((s) => s.dtsIndex === dtsIndex)?.ptsIndex ?? -1
RECURSIVE DtsScan(_, _, _)
DtsScan(videoSamples, dtsIndex, i) ==
  IF i > Len(videoSamples) THEN -1
  ELSE IF videoSamples[i].dtsIndex = dtsIndex THEN videoSamples[i].ptsIndex
  ELSE DtsScan(videoSamples, dtsIndex, i + 1)

dtsIndexToPtsIndex(d, dtsIndex) == DtsScan(d.videoSamples, dtsIndex, 1)

\* { ...indexedSample, ...this.mp4box.getSample(this.videoTrak, indexedSample.dtsIndex) }
fetchSampleData(d, indexedSample) ==
  LET sample == d.videoTrak.samples[indexedSample.dtsIndex + 1] IN
  [f \in DOMAIN indexedSample |->
     IF f \in DOMAIN sample THEN sample[f] ELSE indexedSample[f]]

\* the samples returned and the byte ranges read from the file
bulkFetchSampleData(d, samples) ==
  IF Len(samples) = 0 THEN [out |-> <<>>, reads |-> <<>>]
  ELSE
    LET resorted == toSorted(samples, "offset")
        startOffset == resorted[1].offset
        endOffset == AtLast(resorted).offset + AtLast(resorted).size
        byDts == toSorted(samples, "dts")
    IN [out |-> [i \in 1..Len(byDts) |-> fetchSampleData(d, byDts[i])],
        reads |-> <<<<startOffset, endOffset>>>>]

Throw(op, arg, msg) ==
  [NoCall EXCEPT !.op = op, !.arg = arg, !.status = "error", !.error = msg]

Fetched(op, arg, d, samples, ptsIndex, dtsIndex) ==
  LET f == bulkFetchSampleData(d, samples) IN
  [NoCall EXCEPT !.op = op, !.arg = arg, !.ptsIndex = ptsIndex, !.dtsIndex = dtsIndex,
                 !.samples = f.out, !.fetched = TRUE, !.fetchIn = samples,
                 !.reads = f.reads]

SeekResult(d, timestampMs) ==
  IF Len(d.videoSamples) = 0
  THEN Throw("seek", timestampMs, "Seek failed. No video samples have been extracted.")
  ELSE
    LET targetFrameIndex == timestampMsToPtsIndex(d, timestampMs) IN
    IF targetFrameIndex = -1
    THEN [NoCall EXCEPT !.op = "seek", !.arg = timestampMs]
    ELSE
      LET frame == d.videoSamples[targetFrameIndex + 1] IN
      IF frame.is_sync
      THEN
        LET startIndex == Max2(0, targetFrameIndex - (MIN_DECODER_QUEUE_SIZE + 1) \div 2)
            endIndex == Min2(startIndex + MIN_DECODER_QUEUE_SIZE, Len(d.videoSamples) - 1)
        IN Fetched("seek", timestampMs, d, Slice(d.videoSamples, startIndex, endIndex),
                   frame.ptsIndex, frame.dtsIndex)
      ELSE
        LET before == Slice(d.videoSamples, 0, frame.ptsIndex)
            last == FindLastSync(before)
            next == FindFirstSyncFrom(d.videoSamples, frame.ptsIndex + 1)
        IN
        IF last = 0
        THEN Throw("seek", timestampMs, "Seek failed. No keyframe found.")
        ELSE
          LET lastKeyframe == before[last]
              nextPts == IF next = 0 THEN 0 ELSE d.videoSamples[next].ptsIndex
              endIndex == Min2(Max2(Max2(nextPts, frame.ptsIndex),
                                    lastKeyframe.ptsIndex + MIN_DECODER_QUEUE_SIZE),
                               Len(d.videoSamples) - 1)
          IN Fetched("seek", timestampMs, d,
                     Slice(d.videoSamples, lastKeyframe.ptsIndex, endIndex),
                     frame.ptsIndex, frame.dtsIndex)

\* the caller takes the settled result; the next call can be made
Return ==
  /\ call.op # "none"
  /\ call' = NoCall
  /\ UNCHANGED <<demuxer, dpc, configCalls, mvars, wvars>>

\* the timestamps asked for: one before the timeline, the start and the end
\* of every sample's interval, and on short tracks the middle of the interval
\* and the millisecond after it too
Queries(d) ==
  {-500} \cup
  UNION {{CtsMs(s, d.firstFramePtsOffsetMs),
          CtsMs(s, d.firstFramePtsOffsetMs) + DurationMs(s)} \cup
         (IF Len(d.videoSamples) <= MaxSmall
          THEN {CtsMs(s, d.firstFramePtsOffsetMs) + DurationMs(s) \div 2,
                CtsMs(s, d.firstFramePtsOffsetMs) + DurationMs(s) + 1}
          ELSE {}) :
           s \in {d.videoSamples[i] : i \in 1..Len(d.videoSamples)}}

\* the two lookups are asked everything on short tracks and the ends of the
\* range on long ones (a seek makes the same timestamp lookup)
LookupQueries(d) ==
  IF Len(d.videoSamples) <= MaxSmall THEN Queries(d)
  ELSE {-500, CtsMs(d.videoSamples[1], d.firstFramePtsOffsetMs),
        CtsMs(AtLast(d.videoSamples), d.firstFramePtsOffsetMs)
          + DurationMs(AtLast(d.videoSamples))}

DtsQueries(d) ==
  IF Len(d.videoSamples) <= MaxSmall THEN -1..Len(d.videoSamples)
  ELSE {-1, 0, 1, Len(d.videoSamples) - 1, Len(d.videoSamples)}

\* onReady has ended; calls made while it still awaits are tried on the
\* short tracks
Parsed ==
  \/ dpc = "done"
  \/ dpc = "awaitSupported" /\ Len(demuxer.videoSamples) <= MaxSmall

\* no call is in progress: the caller has taken its last result and waits for
\* no configuration
Idle ==
  /\ call.op = "none"
  /\ configCalls = <<>>
  /\ Parsed

\* seek trapping the error it throws, as onReady's failures are trapped
seek_TrapsError ==
  /\ Idle
  /\ \E timestampMs \in Queries(demuxer) :
       LET r == [SeekResult(demuxer, timestampMs) EXCEPT !.trapped = demuxer.error] IN
       /\ call' = r
       /\ demuxer' = IF r.status = "error" THEN _trapError(demuxer, r.error) ELSE demuxer
  /\ UNCHANGED <<dpc, configCalls, mvars, wvars>>

seek ==
  /\ Idle
  /\ \E timestampMs \in Queries(demuxer) :
       call' = [SeekResult(demuxer, timestampMs) EXCEPT !.trapped = demuxer.error]
  /\ UNCHANGED <<demuxer, dpc, configCalls, mvars, wvars>>

readAllSamples ==
  /\ Idle
  /\ call' = [Fetched("readAllSamples", 0, demuxer, demuxer.videoSamples, -1, -1)
                EXCEPT !.trapped = demuxer.error]
  /\ UNCHANGED <<demuxer, dpc, configCalls, mvars, wvars>>

TimestampMsToPtsIndex ==
  /\ Idle
  /\ \E timestampMs \in LookupQueries(demuxer) :
       call' = [NoCall EXCEPT !.op = "timestampMsToPtsIndex", !.arg = timestampMs,
                              !.ptsIndex = timestampMsToPtsIndex(demuxer, timestampMs)]
  /\ UNCHANGED <<demuxer, dpc, configCalls, mvars, wvars>>

DtsIndexToPtsIndex ==
  /\ Idle
  /\ \E dtsIndex \in DtsQueries(demuxer) :
       call' = [NoCall EXCEPT !.op = "dtsIndexToPtsIndex", !.arg = dtsIndex,
                              !.ptsIndex = dtsIndexToPtsIndex(demuxer, dtsIndex)]
  /\ UNCHANGED <<demuxer, dpc, configCalls, mvars, wvars>>

\* getVideoDecoderConfig(), which can be called right after construction: it
\* throws the trapped error, returns the configuration, or returns a new
\* promise whose resolver replaces the registered callback
getVideoDecoderConfig ==
  /\ call.op = "none"
  /\ dpc = "parsing" \/ Parsed
  /\ IF demuxer.error # NoError \/ demuxer.videoDecoderConfig
     THEN /\ call' = [ConfigResult(demuxer) EXCEPT !.trapped = demuxer.error]
          /\ UNCHANGED <<demuxer, configCalls>>
     ELSE /\ Len(configCalls) < MaxPending
          /\ configCalls' = Append(configCalls, PendingPromise)
          /\ demuxer' = [demuxer EXCEPT !.onVideoDecoderConfig = Len(configCalls) + 1]
          /\ UNCHANGED call
  /\ UNCHANGED <<dpc, mvars, wvars>>

\* the 10 s timer of the oldest pending promise fires
ConfigTimeout ==
  /\ \E i \in 1..Len(configCalls) :
       /\ configCalls[i].status = "pending"
       /\ \A j \in 1..(i - 1) : configCalls[j].status # "pending"
       /\ configCalls' = [configCalls EXCEPT ![i] = [status |-> "rejected", error |-> TimedOut]]
  /\ UNCHANGED <<demuxer, dpc, call, mvars, wvars>>

\* the callers take the outcomes of their settled promises; the callback
\* left registered can settle nothing any more and counts as the initial one
ConfigReturn ==
  /\ configCalls # <<>>
  /\ \A i \in 1..Len(configCalls) : configCalls[i].status # "pending"
  /\ configCalls' = <<>>
  /\ demuxer' = [demuxer EXCEPT !.onVideoDecoderConfig = 0]
  /\ UNCHANGED <<dpc, call, mvars, wvars>>

DemuxNext ==
  \/ \E info \in Infos : onReady(info)
  \/ \E supported \in BOOLEAN : onReadySupported(supported)
  \/ appendBufferFailed
  \/ getVideoDecoderConfig
  \/ ConfigTimeout
  \/ ConfigReturn
  \/ seek
  \/ readAllSamples
  \/ TimestampMsToPtsIndex
  \/ DtsIndexToPtsIndex
  \/ Return

\* ------------------------------------------------------ MP4PushMuxerEncoder

\* bounds of the muxer's runs
\* frames pushed to the video encoder in one run
MaxVideo == 2
\* data pushed to the audio encoder in one run
MaxAudio == 2
\* largest encoded chunk, in bytes
MaxChunkBytes == 2
\* largest samples-per-chunk option a muxer is constructed with
MaxPerChunk == 2
\* frames pushed at chosen timestamps in one run, and the latest timestamp in
\* seconds
MaxFrames == 4
MaxFrameSec == 6

videoOutputTimescale == 90000
audioSampleRate == 48000
keyframeIntevalSec == 2

secToUs(sec) == sec * 1000000

\* Math.round(num / den) for num >= 0, den > 0
Round(num, den) == (2 * num + den) \div (2 * den)

\* Math.round(usToSec(us) * timescale); both timescales are multiples of
\* 1000, and the quotient is written reduced by 1000
UsToTicks(us, timescale) == Round(us * (timescale \div 1000), 1000)

\* EMPTY_SAMPLE numbered 1
EMPTY_SAMPLE_NumberOne ==
  [number |-> 1, offset |-> 0, dts |-> 0, duration |-> 0, sync |-> FALSE,
   size |-> 0, data |-> <<>>]

EMPTY_SAMPLE ==
  [number |-> 0, offset |-> 0, dts |-> 0, duration |-> 0, sync |-> FALSE,
   size |-> 0, data |-> <<>>]

\* frame.timestamp and data.timestamp, in microseconds, of the n-th push: the
\* caller pushes one frame per second and 20 ms of audio at a time
FrameTime(n) == secToUs(n - 1)
AudioTime(n) == (n - 1) * 20000

\* chunk.duration: the frame's duration, or none
VideoChunkDurations == {33333}
AudioChunkDurations == {0, 20000}

\* the bytes of the n-th chunk of a track: byteLength copies of a tag
ChunkBytes(tag, n, byteLength) == [i \in 1..byteLength |-> tag + n]

\* outcome of multiplexToBuffer; videoAtCall and videoAtEnd are the lengths of
\* the video sample sequence when the call was made and when it ended,
\* errorAtCall the encoder error trapped when the call was made
NoResult ==
  [status |-> "none", error |-> NoError, videoAtCall |-> 0, videoAtEnd |-> 0,
   flushed |-> FALSE, buffer |-> FALSE, errorAtCall |-> NoError]

\* what flush() rejects with: called on an encoder that is not configured,
\* and pending on an encoder that close() has reset
InvalidStateError == "InvalidStateError"
AbortError == "AbortError"

NoVideoSamples == "Write failed: No video samples to write."

\* the boxes of this.mp4box that carry the sample tables, before any is added
NoBoxes ==
  [ftyp |-> [compatible_brands |-> <<>>], mdat |-> [data |-> <<>>],
   video |-> [stsc |-> [samples_per_chunk |-> <<>>], stco |-> [chunk_offsets |-> <<>>],
              stsz |-> [sample_sizes |-> <<>>]],
   audio |-> [stsc |-> [samples_per_chunk |-> <<>>], stco |-> [chunk_offsets |-> <<>>],
              stsz |-> [sample_sizes |-> <<>>]]]

\* the instance the constructor leaves, for the two samples-per-chunk options
Constructed(videoSamplesPerChunk, audioSamplesPerChunk) ==
  [compatibleBrands |-> DEFAULT_COMPATIBLE_BRANDS, mdatStartOffset |-> mdatStartOffset,
   videoSamplesPerChunk |-> videoSamplesPerChunk,
   audioSamplesPerChunk |-> audioSamplesPerChunk,
   videoSamples |-> <<>>, audioSamples |-> <<>>, nextKeyframeUs |-> 0,
   encoderError |-> NoError, mp4box |-> FALSE, boxes |-> NoBoxes, pushedVideo |-> 0,
   pushedAudio |-> 0]

EncodersInit ==
  /\ videoEncoder = [state |-> "unconfigured", queue |-> <<>>, flushLeft |-> -1]
  /\ audioEncoder = [state |-> "unconfigured", queue |-> <<>>, flushLeft |-> -1,
                     lastDuration |-> -1]
  /\ mux = [pc |-> "idle", result |-> NoResult]

MuxerInit ==
  /\ muxer = Constructed(1, 1)
  /\ EncodersInit

\* new MP4PushMuxerEncoder({ videoSamplesPerChunk, audioSamplesPerChunk })
MuxerInitOptions ==
  /\ \E videoSamplesPerChunk \in 1..MaxPerChunk, audioSamplesPerChunk \in 1..MaxPerChunk :
       muxer = Constructed(videoSamplesPerChunk, audioSamplesPerChunk)
  /\ EncodersInit

\* the lists the caller assigns to the public field compatibleBrands
BrandLists == {DEFAULT_COMPATIBLE_BRANDS, <<"isom", "avc1">>}

\* muxer.compatibleBrands = brands
SetCompatibleBrands ==
  /\ \E brands \in BrandLists :
       /\ brands # muxer.compatibleBrands
       /\ muxer' = [muxer EXCEPT !.compatibleBrands = brands]
  /\ UNCHANGED <<videoEncoder, audioEncoder, mux, dvars, wvars>>

\* VideoEncoder.close() / AudioEncoder.close(): pending work is dropped and a
\* pending flush() is rejected
Closed(encoder) == [encoder EXCEPT !.state = "closed", !.queue = <<>>]

\* closeEncoders()
closeEncoders ==
  /\ videoEncoder' = Closed(videoEncoder)
  /\ audioEncoder' = Closed(audioEncoder)

CloseEncoders ==
  /\ videoEncoder.state # "closed" \/ audioEncoder.state # "closed"
  /\ closeEncoders
  /\ UNCHANGED <<muxer, mux, dvars, wvars>>

\* configureEncoders(width, height), when both configurations are supported
configureEncoders ==
  /\ videoEncoder.state = "unconfigured"
  /\ audioEncoder.state = "unconfigured"
  /\ videoEncoder' = [videoEncoder EXCEPT !.state = "configured"]
  /\ audioEncoder' = [audioEncoder EXCEPT !.state = "configured"]
  /\ UNCHANGED <<muxer, mux, dvars, wvars>>

\* onEncodedVideoChunk taking the new chunk's size for the previous sample's
onEncodedVideoChunk_OwnSize(samples, chunk) ==
  LET data == ChunkBytes(0, Len(samples) + 1, chunk.byteLength)
      prev == IF Len(samples) > 0 THEN AtLast(samples) ELSE EMPTY_SAMPLE
  IN Append(samples,
            [number |-> prev.number + 1,
             offset |-> IF Len(samples) > 0 THEN prev.offset + Len(data) ELSE 0,
             sync |-> chunk.type = "key",
             dts |-> UsToTicks(chunk.timestamp, videoOutputTimescale),
             duration |-> UsToTicks(chunk.duration, videoOutputTimescale),
             size |-> Len(data), data |-> data])

\* onEncodedVideoChunk(chunk, meta)
onEncodedVideoChunk(samples, chunk) ==
  LET data == ChunkBytes(0, Len(samples) + 1, chunk.byteLength)
      prev == IF Len(samples) > 0 THEN AtLast(samples) ELSE EMPTY_SAMPLE
      dts == UsToTicks(chunk.timestamp, videoOutputTimescale)
      duration == UsToTicks(chunk.duration, videoOutputTimescale)
  IN Append(samples,
            [number |-> prev.number + 1, offset |-> prev.offset + prev.size,
             sync |-> chunk.type = "key", dts |-> dts, duration |-> duration,
             size |-> Len(data), data |-> data])

\* onEncodedAudioChunk without the duration test
onEncodedAudioChunk_KeepsAll(samples, chunk) ==
  LET data == ChunkBytes(100, Len(samples) + 1, chunk.byteLength)
      prev == IF Len(samples) > 0 THEN AtLast(samples) ELSE EMPTY_SAMPLE
  IN Append(samples,
            [number |-> prev.number + 1, offset |-> prev.offset + prev.size,
             sync |-> TRUE, dts |-> UsToTicks(chunk.timestamp, audioSampleRate),
             duration |-> UsToTicks(chunk.duration, audioSampleRate),
             size |-> Len(data), data |-> data])

\* onEncodedAudioChunk(chunk)
onEncodedAudioChunk(samples, chunk) ==
  LET data == ChunkBytes(100, Len(samples) + 1, chunk.byteLength)
      prev == IF Len(samples) > 0 THEN AtLast(samples) ELSE EMPTY_SAMPLE
  IN
  IF chunk.duration = 0
  THEN samples   \* audio chunk dropped: missing duration
  ELSE
    LET dts == UsToTicks(chunk.timestamp, audioSampleRate)
        duration == UsToTicks(chunk.duration, audioSampleRate)
    IN Append(samples,
              [number |-> prev.number + 1, offset |-> prev.offset + prev.size,
               sync |-> TRUE, dts |-> dts, duration |-> duration,
               size |-> Len(data), data |-> data])

\* the encoder has delivered its oldest pending output
Delivered(encoder) ==
  [encoder EXCEPT !.queue = Tail(encoder.queue),
                  !.flushLeft = IF encoder.flushLeft > 0 THEN encoder.flushLeft - 1
                                ELSE encoder.flushLeft]

\* the video encoder's output callback: outputs come in submission order; a
\* frame asked for as a key frame comes out as one
VideoOutput ==
  /\ videoEncoder.state = "configured"
  /\ Len(videoEncoder.queue) > 0
  /\ \E byteLength \in 1..MaxChunkBytes, duration \in VideoChunkDurations,
        type \in {"key", "delta"} :
       /\ Head(videoEncoder.queue).keyFrame => type = "key"
       /\ muxer' = [muxer EXCEPT !.videoSamples =
                      onEncodedVideoChunk(muxer.videoSamples,
                        [byteLength |-> byteLength, type |-> type,
                         timestamp |-> Head(videoEncoder.queue).timestamp,
                         duration |-> duration])]
  /\ videoEncoder' = Delivered(videoEncoder)
  /\ UNCHANGED <<audioEncoder, mux, dvars, wvars>>

\* the audio encoder's output callback
AudioOutput ==
  /\ audioEncoder.state = "configured"
  /\ Len(audioEncoder.queue) > 0
  /\ \E byteLength \in 1..MaxChunkBytes, duration \in AudioChunkDurations :
       /\ muxer' = [muxer EXCEPT !.audioSamples =
                      onEncodedAudioChunk(muxer.audioSamples,
                        [byteLength |-> byteLength,
                         timestamp |-> Head(audioEncoder.queue).timestamp,
                         duration |-> duration])]
       /\ audioEncoder' = [Delivered(audioEncoder) EXCEPT !.lastDuration = duration]
  /\ UNCHANGED <<videoEncoder, mux, dvars, wvars>>

\* pushVideoFrame(frame) for a frame with this timestamp; encode() throws
\* unless the encoder is configured
pushVideoFrame(timestamp) ==
  /\ IF muxer.encoderError # NoError
     THEN /\ muxer' = [muxer EXCEPT !.pushedVideo = @ + 1]
          /\ UNCHANGED videoEncoder
     ELSE
       LET keyFrame == timestamp >= muxer.nextKeyframeUs IN
       /\ muxer' = [muxer EXCEPT
                      !.nextKeyframeUs = IF keyFrame THEN @ + secToUs(keyframeIntevalSec)
                                         ELSE @,
                      !.pushedVideo = @ + 1]
       /\ videoEncoder' =
            IF videoEncoder.state = "configured"
            THEN [videoEncoder EXCEPT !.queue =
                    Append(@, [timestamp |-> timestamp, keyFrame |-> keyFrame])]
            ELSE videoEncoder
  /\ UNCHANGED <<audioEncoder, mux, dvars, wvars>>

\* the caller pushes the next frame of its one-frame-per-second sequence
PushVideoFrame ==
  /\ muxer.pushedVideo < MaxVideo
  /\ pushVideoFrame(FrameTime(muxer.pushedVideo + 1))

\* timestamps, in microseconds, of the frames pushed at chosen times
FrameTimes == {secToUs(sec) : sec \in 0..MaxFrameSec}

\* the caller pushes a frame to the configured encoder: the first at 0, each
\* later one no earlier than the frame before it
PushFrameAt ==
  /\ muxer.pushedVideo < MaxFrames
  /\ videoEncoder.state = "configured"
  /\ Len(videoEncoder.queue) = muxer.pushedVideo
  /\ \E timestamp \in FrameTimes :
       /\ IF muxer.pushedVideo = 0 THEN timestamp = 0
          ELSE timestamp >= AtLast(videoEncoder.queue).timestamp
       /\ pushVideoFrame(timestamp)

\* pushAudioData(data)
pushAudioData ==
  /\ muxer.pushedAudio < MaxAudio
  /\ LET timestamp == AudioTime(muxer.pushedAudio + 1) IN
       /\ muxer' = [muxer EXCEPT !.pushedAudio = @ + 1]
       /\ audioEncoder' =
            IF muxer.encoderError = NoError /\ audioEncoder.state = "configured"
            THEN [audioEncoder EXCEPT !.queue = Append(@, [timestamp |-> timestamp])]
            ELSE audioEncoder
  /\ UNCHANGED <<videoEncoder, mux, dvars, wvars>>

\* an encoder reports an error: it closes itself, then the muxer's onError
\* traps the error and closes both encoders
onError(which) ==
  /\ IF which = "video" THEN videoEncoder.state = "configured"
     ELSE audioEncoder.state = "configured"
  /\ muxer' = [muxer EXCEPT !.encoderError = which]
  /\ closeEncoders
  /\ UNCHANGED <<mux, dvars, wvars>>

Failed(error) ==
  [pc |-> "done",
   result |-> [mux.result EXCEPT !.status = "error", !.error = error,
                                 !.videoAtEnd = Len(muxer.videoSamples)]]

\* multiplexToBuffer(), up to its first await: audioEncoder.flush() is
\* rejected at once unless the encoder is configured
multiplexToBuffer ==
  /\ mux.pc = "idle"
  /\ IF audioEncoder.state # "configured"
     THEN /\ closeEncoders
          /\ mux' = [Failed(InvalidStateError) EXCEPT
                       !.result.videoAtCall = Len(muxer.videoSamples),
                       !.result.errorAtCall = muxer.encoderError]
     ELSE /\ audioEncoder' = [audioEncoder EXCEPT !.flushLeft = Len(audioEncoder.queue)]
          /\ mux' = [pc |-> "flushAudio",
                     result |-> [NoResult EXCEPT !.videoAtCall = Len(muxer.videoSamples),
                                                 !.errorAtCall = muxer.encoderError]]
          /\ UNCHANGED videoEncoder
  /\ UNCHANGED <<muxer, dvars, wvars>>

\* the audio flush has resolved; videoEncoder.flush() is called
AudioFlushed ==
  /\ mux.pc = "flushAudio"
  /\ audioEncoder.state = "configured"
  /\ audioEncoder.flushLeft = 0
  /\ IF videoEncoder.state # "configured"
     THEN /\ videoEncoder' = Closed(videoEncoder)
          /\ audioEncoder' = [Closed(audioEncoder) EXCEPT !.flushLeft = -1]
          /\ mux' = Failed(InvalidStateError)
     ELSE /\ audioEncoder' = [audioEncoder EXCEPT !.flushLeft = -1]
          /\ videoEncoder' = [videoEncoder EXCEPT !.flushLeft = Len(videoEncoder.queue)]
          /\ mux' = [mux EXCEPT !.pc = "flushVideo"]
  /\ UNCHANGED <<muxer, dvars, wvars>>

\* a pending flush is rejected because its encoder was closed: with the
\* encoder's own error when that closed it, else with an AbortError
FlushRejected ==
  /\ \/ mux.pc = "flushAudio" /\ audioEncoder.state = "closed"
     \/ mux.pc = "flushVideo" /\ videoEncoder.state = "closed"
  /\ videoEncoder' = [Closed(videoEncoder) EXCEPT !.flushLeft = -1]
  /\ audioEncoder' = [Closed(audioEncoder) EXCEPT !.flushLeft = -1]
  /\ mux' = Failed(IF (mux.pc = "flushAudio" /\ muxer.encoderError = "audio")
                       \/ (mux.pc = "flushVideo" /\ muxer.encoderError = "video")
                    THEN muxer.encoderError ELSE AbortError)
  /\ UNCHANGED <<muxer, dvars, wvars>>

\* reduce((acc, sample) => sample.size + acc, 0)
RECURSIVE TotalSize(_)
TotalSize(samples) ==
  IF samples = <<>> THEN 0 ELSE Head(samples).size + TotalSize(Tail(samples))

\* Uint8Array.prototype.set(data, offset) on a buffer the data fits in
TypedArraySet(buf, data, offset) ==
  [i \in 1..Len(buf) |->
     IF offset < i /\ i <= offset + Len(data) THEN data[i - offset] ELSE buf[i]]

\* samples.forEach((sample) => mdatData.set(sample.data, sample.offset + base))
RECURSIVE SetEach(_, _, _)
SetEach(buf, samples, base) ==
  IF samples = <<>> THEN buf
  ELSE SetEach(TypedArraySet(buf, Head(samples).data, Head(samples).offset + base),
               Tail(samples), base)

\* set() throws a RangeError unless the data fits in the buffer
Fits(len, samples, base) ==
  \A i \in 1..Len(samples) : samples[i].offset + base + Len(samples[i].data) <= len

RangeError == "RangeError: offset is out of bounds"

\* audioBaseOffset without the last video sample's size
audioBaseOffset_LastOffset(videoSamples) == AtLast(videoSamples).offset

\* lastVideoSample.offset + lastVideoSample.size
audioBaseOffset(videoSamples) ==
  AtLast(videoSamples).offset + AtLast(videoSamples).size

\* new Uint8Array(total): zero-filled
mdatLength(m) == TotalSize(m.videoSamples) + TotalSize(m.audioSamples)

mdatFits(m) ==
  /\ Fits(mdatLength(m), m.videoSamples, 0)
  /\ Fits(mdatLength(m), m.audioSamples, audioBaseOffset(m.videoSamples))

mdatData(m) ==
  SetEach(SetEach([i \in 1..mdatLength(m) |-> 0], m.videoSamples, 0),
          m.audioSamples, audioBaseOffset(m.videoSamples))

\* the ftyp, mdat, stsc, stco and stsz boxes multiplexToBuffer adds, for a
\* muxer with at least one video sample
Boxes(m) ==
  [ftyp |-> [compatible_brands |-> m.compatibleBrands],
   mdat |-> [data |-> mdatData(m)],
   video |->
     [stsc |-> [samples_per_chunk |-> <<m.videoSamplesPerChunk>>],
      stco |-> [chunk_offsets |->
                  [i \in 1..Len(m.videoSamples) |->
                     m.videoSamples[i].offset + m.mdatStartOffset]],
      stsz |-> [sample_sizes |->
                  [i \in 1..Len(m.videoSamples) |-> m.videoSamples[i].size]]],
   audio |->
     [stsc |-> [samples_per_chunk |-> <<m.audioSamplesPerChunk>>],
      stco |-> [chunk_offsets |->
                  [i \in 1..Len(m.audioSamples) |->
                     m.audioSamples[i].offset + audioBaseOffset(m.videoSamples)
                       + m.mdatStartOffset]],
      stsz |-> [sample_sizes |->
                  [i \in 1..Len(m.audioSamples) |-> m.audioSamples[i].size]]]]

\* AfterFlush with MP4Box.createFile() moved before the sample check
AfterFlush_CreateFileFirst(m, result) ==
  LET r == [result EXCEPT !.flushed = TRUE, !.videoAtEnd = Len(m.videoSamples)] IN
  IF m.encoderError # NoError
  THEN [muxer |-> m, result |-> [r EXCEPT !.status = "error", !.error = m.encoderError]]
  ELSE IF Len(m.videoSamples) = 0
  THEN [muxer |-> [m EXCEPT !.mp4box = TRUE],
        result |-> [r EXCEPT !.status = "error", !.error = NoVideoSamples]]
  ELSE IF ~mdatFits(m)
  THEN [muxer |-> [m EXCEPT !.mp4box = TRUE],
        result |-> [r EXCEPT !.status = "error", !.error = RangeError]]
  ELSE [muxer |-> [m EXCEPT !.mp4box = TRUE, !.boxes = Boxes(m)],
        result |-> [r EXCEPT !.status = "ok", !.buffer = TRUE]]

\* multiplexToBuffer() after its flushes: the new muxer and the call's outcome
AfterFlush(m, result) ==
  LET r == [result EXCEPT !.flushed = TRUE, !.videoAtEnd = Len(m.videoSamples)] IN
  IF m.encoderError # NoError
  THEN [muxer |-> m, result |-> [r EXCEPT !.status = "error", !.error = m.encoderError]]
  ELSE IF Len(m.videoSamples) = 0
  THEN [muxer |-> m, result |-> [r EXCEPT !.status = "error", !.error = NoVideoSamples]]
  ELSE IF ~mdatFits(m)
  THEN [muxer |-> [m EXCEPT !.mp4box = TRUE],
        result |-> [r EXCEPT !.status = "error", !.error = RangeError]]
  ELSE [muxer |-> [m EXCEPT !.mp4box = TRUE, !.boxes = Boxes(m)],
        result |-> [r EXCEPT !.status = "ok", !.buffer = TRUE]]

\* the video flush has resolved: the rest of multiplexToBuffer runs
VideoFlushed ==
  /\ mux.pc = "flushVideo"
  /\ videoEncoder.state = "configured"
  /\ videoEncoder.flushLeft = 0
  /\ videoEncoder' = [videoEncoder EXCEPT !.flushLeft = -1]
  /\ muxer' = AfterFlush(muxer, mux.result).muxer
  /\ mux' = [pc |-> "done", result |-> AfterFlush(muxer, mux.result).result]
  /\ UNCHANGED <<audioEncoder, dvars, wvars>>

MuxNext ==
  \/ configureEncoders
  \/ PushVideoFrame
  \/ pushAudioData
  \/ VideoOutput
  \/ AudioOutput
  \/ onError("video")
  \/ onError("audio")
  \/ CloseEncoders
  \/ multiplexToBuffer
  \/ AudioFlushed
  \/ FlushRejected
  \/ VideoFlushed

\* ------------------------------------------------------------ isConfigured

\* bounds of the waits; the clock counts polling intervals of 10 ms
\* last instant of the clock
MaxNow == 4
\* longest timeoutMs, in polling intervals
MaxTimeout == 2

WaitInit ==
  wait = [pc |-> "idle", state |-> "unconfigured", now |-> 0, deadline |-> 0,
          due |-> 0, seen |-> "none", checkedAt |-> 0]

\* checkState testing the deadline before the closed state
checkState_DeadlineFirst(w) ==
  IF w.state = "configured"
  THEN [w EXCEPT !.pc = "resolved", !.seen = w.state, !.checkedAt = w.now]
  ELSE IF w.now >= w.deadline
  THEN [w EXCEPT !.pc = "timeout", !.seen = w.state, !.checkedAt = w.now]
  ELSE IF w.state = "closed"
  THEN [w EXCEPT !.pc = "closedError", !.seen = w.state, !.checkedAt = w.now]
  ELSE [w EXCEPT !.pc = "polling", !.due = w.now + 1, !.seen = w.state,
                 !.checkedAt = w.now]

\* checkState(): seen and checkedAt record the state it read and when
checkState(w) ==
  IF w.state = "configured"
  THEN [w EXCEPT !.pc = "resolved", !.seen = w.state, !.checkedAt = w.now]
  ELSE IF w.state = "closed"
  THEN [w EXCEPT !.pc = "closedError", !.seen = w.state, !.checkedAt = w.now]
  ELSE IF w.now >= w.deadline
  THEN [w EXCEPT !.pc = "timeout", !.seen = w.state, !.checkedAt = w.now]
  ELSE [w EXCEPT !.pc = "polling", !.due = w.now + 1, !.seen = w.state,
                 !.checkedAt = w.now]

\* isConfigured(configurable, timeoutMs): the promise's executor
isConfigured(timeout) ==
  /\ wait.pc = "idle"
  /\ wait.now + timeout <= MaxNow
  /\ wait' = IF wait.state = "configured"
             THEN [wait EXCEPT !.pc = "resolved", !.seen = wait.state,
                               !.checkedAt = wait.now]
             ELSE checkState([wait EXCEPT !.deadline = wait.now + timeout])
  /\ UNCHANGED <<dvars, mvars>>

\* the timer set by setTimeout(checkState, 10) fires, not before it is due
Poll ==
  /\ wait.pc = "polling"
  /\ wait.now >= wait.due
  /\ wait' = checkState(wait)
  /\ UNCHANGED <<dvars, mvars>>

\* Date.now() advances by a polling interval
Tick ==
  /\ wait.now < MaxNow
  /\ wait' = [wait EXCEPT !.now = @ + 1]
  /\ UNCHANGED <<dvars, mvars>>

\* the codec changes state: configure() takes effect, reset(), close()
CodecConfigured ==
  /\ wait.state = "unconfigured"
  /\ wait' = [wait EXCEPT !.state = "configured"]
  /\ UNCHANGED <<dvars, mvars>>

CodecReset ==
  /\ wait.state = "configured"
  /\ wait' = [wait EXCEPT !.state = "unconfigured"]
  /\ UNCHANGED <<dvars, mvars>>

CodecClosed ==
  /\ wait.state # "closed"
  /\ wait' = [wait EXCEPT !.state = "closed"]
  /\ UNCHANGED <<dvars, mvars>>

WaitNext ==
  \/ \E timeout \in 0..MaxTimeout : isConfigured(timeout)
  \/ Poll
  \/ Tick
  \/ CodecConfigured
  \/ CodecReset
  \/ CodecClosed

\* ---------------------------------------------------------- specifications

Init == DemuxerInit /\ MuxerInit /\ WaitInit

SpecDemux == Init /\ [][DemuxNext]_vars

SpecMux == Init /\ [][MuxNext]_vars

\* the muxer constructed with samples-per-chunk options, and with its brand
\* list assigned by the caller
InitOptions == DemuxerInit /\ MuxerInitOptions /\ WaitInit

OptionsNext == MuxNext \/ SetCompatibleBrands

SpecMuxOptions == InitOptions /\ [][OptionsNext]_vars

\* frames pushed at chosen timestamps to an encoder that holds its output
KeyframeNext == configureEncoders \/ PushFrameAt

SpecKeyframes == Init /\ [][KeyframeNext]_vars

\* timers fire and time advances
SpecWait == Init /\ [][WaitNext]_vars /\ WF_vars(Poll) /\ WF_vars(Tick)

\* ------------------------------------------------------ claims: demuxer

Samples == demuxer.videoSamples
Count == Len(Samples)
SeekReturned == call.op = "seek" /\ call.status = "ok"
SeekFoundTarget == SeekReturned /\ call.ptsIndex >= 0

\* the half-open interval [cts, cts + duration) of a sample contains t
InHalfOpen(s, t) ==
  /\ CtsMs(s, demuxer.firstFramePtsOffsetMs) <= t
  /\ t < CtsMs(s, demuxer.firstFramePtsOffsetMs) + DurationMs(s)

\* the closed interval [cts, cts + duration] of a sample contains t
InClosed(s, t) ==
  /\ CtsMs(s, demuxer.firstFramePtsOffsetMs) <= t
  /\ t <= CtsMs(s, demuxer.firstFramePtsOffsetMs) + DurationMs(s)

\* C1 (seek keyframe guarantee): whenever seek succeeds and returns a
\* non-empty window, the first sample of the window is a sync sample.
C1_SeekKeyframeGuarantee ==
  (SeekReturned /\ Len(call.samples) > 0) => call.samples[1].is_sync

\* presentation index of the keyframe a found target is decoded from: the
\* target itself when it is a sync sample, else the last sync sample before it
KeyframeIndex(target) ==
  IF Samples[target + 1].is_sync THEN target
  ELSE FindLastSync(Slice(Samples, 0, target)) - 1

\* C2 (seek minimum depth): every successful seek returns at least
\* min(Q, totalSamples - lastKeyframeIndex) samples.
C2_SeekMinimumDepth ==
  SeekFoundTarget =>
    Len(call.samples) >=
      Min2(MIN_DECODER_QUEUE_SIZE, Count - KeyframeIndex(call.ptsIndex))

\* C4 (half-open lookup): timestampMsToPtsIndex(t) returns a sample whose
\* interval [cts, cts + duration) contains t, and -1 only when there is none;
\* a query at the end of a sample's interval never returns that sample.
C4_HalfOpenLookup ==
  call.op = "timestampMsToPtsIndex" =>
    IF call.ptsIndex = -1
    THEN \A i \in 1..Count : ~InHalfOpen(Samples[i], call.arg)
    ELSE InHalfOpen(Samples[call.ptsIndex + 1], call.arg)

\* C5 (bijective indexing): once the samples are indexed, presentation
\* index -> decode index -> dtsIndexToPtsIndex is the identity on [0, count),
\* so is the other way round, and dtsIndex and ptsIndex are each a
\* permutation of [0, count).
C5_BijectiveIndexing ==
  /\ \A x \in 0..(Count - 1) :
       /\ dtsIndexToPtsIndex(demuxer, Samples[x + 1].dtsIndex) = x
       /\ dtsIndexToPtsIndex(demuxer, x) \in 0..(Count - 1)
       /\ Samples[dtsIndexToPtsIndex(demuxer, x) + 1].dtsIndex = x
  /\ {Samples[i].dtsIndex : i \in 1..Count} = 0..(Count - 1)
  /\ {Samples[i].ptsIndex : i \in 1..Count} = 0..(Count - 1)
  /\ \A i \in 1..Count :
       demuxer.videoTrak.samples[Samples[i].dtsIndex + 1].cts = Samples[i].cts

\* a reordered index has been built and dtsIndexToPtsIndex was asked for a
\* sample whose two indices differ
C5_Witness ==
  /\ call.op = "dtsIndexToPtsIndex"
  /\ call.ptsIndex >= 0
  /\ call.ptsIndex # call.arg
  /\ Count >= 2

\* C6 (presentation-order monotonicity): position i of the index holds
\* ptsIndex i, composition timestamps do not decrease along it, and samples
\* with equal composition timestamps stay in decode order.
C6_PresentationOrder ==
  /\ \A i \in 1..Count : Samples[i].ptsIndex = i - 1
  /\ \A i, j \in 1..Count :
       i < j => /\ Samples[i].cts <= Samples[j].cts
                /\ (Samples[i].cts = Samples[j].cts
                      => Samples[i].dtsIndex < Samples[j].dtsIndex)

\* an index of at least three samples that the sort has reordered against
\* decode order
C6_Witness ==
  /\ dpc = "done"
  /\ Count >= 3
  /\ \E i, j \in 1..Count : i < j /\ Samples[i].dtsIndex > Samples[j].dtsIndex

C9_FetchOrdering ==
  call.fetched =>
    /\ Len(call.samples) = Len(call.fetchIn)
    /\ {call.samples[i].dtsIndex : i \in 1..Len(call.samples)}
         = {call.fetchIn[i].dtsIndex : i \in 1..Len(call.fetchIn)}
    /\ \A i, j \in 1..Len(call.samples) :
         i < j => call.samples[i].dtsIndex < call.samples[j].dtsIndex

\* C10 (single covering read): a bulk fetch of a non-empty set issues exactly
\* one read, of [smallest offset, offset + size of the sample with the largest
\* offset), and the range covers every requested sample; a fetch of the empty
\* set returns nothing and reads nothing.
C10_SingleCoveringRead ==
  call.fetched =>
    IF Len(call.fetchIn) = 0
    THEN call.samples = <<>> /\ call.reads = <<>>
    ELSE /\ Len(call.reads) = 1
         /\ \A i \in 1..Len(call.fetchIn) :
              call.reads[1][1] <= call.fetchIn[i].offset
         /\ \E i \in 1..Len(call.fetchIn) :
              /\ call.reads[1][1] = call.fetchIn[i].offset
         /\ \E i \in 1..Len(call.fetchIn) :
              /\ \A j \in 1..Len(call.fetchIn) :
                   call.fetchIn[j].offset <= call.fetchIn[i].offset
              /\ call.reads[1][2] = call.fetchIn[i].offset + call.fetchIn[i].size
         /\ \A i \in 1..Len(call.fetchIn) :
              call.fetchIn[i].offset + call.fetchIn[i].size <= call.reads[1][2]

\* presentation index of the sample seek resolves a timestamp to, -1 if none
TargetOf(timestampMs) == timestampMsToPtsIndex(demuxer, timestampMs)

NoKeyframeFound == "Seek failed. No keyframe found."

\* C11 (no preceding keyframe): a seek whose target is not a sync sample and
\* has no sync sample before it in presentation order fails with the
\* no-keyframe error and returns no window.
C11_NoPrecedingKeyframeFails ==
  (/\ call.op = "seek"
   /\ Count > 0
   /\ TargetOf(call.arg) >= 0
   /\ \A i \in 1..(TargetOf(call.arg) + 1) : ~Samples[i].is_sync)
    => /\ call.status = "error"
       /\ call.error = NoKeyframeFound
       /\ call.samples = <<>>
       /\ ~call.fetched
       /\ call.reads = <<>>

\* a seek failed for want of a keyframe although samples precede its target
C11_Witness ==
  /\ call.op = "seek"
  /\ call.error = NoKeyframeFound
  /\ TargetOf(call.arg) >= 1

\* C12 (seek errors do not poison): a seek that fails, or finds no sample,
\* leaves the sample index, the decoder configuration and the trapped error
\* as they were, so that every following call sees the instance the failed
\* seek found.
C12_SeekErrorsDoNotPoison ==
  [][(/\ call.op = "none"
      /\ call'.op = "seek"
      /\ call'.status = "error" \/ call'.ptsIndex = -1)
       => demuxer' = demuxer /\ dpc' = dpc]_vars

\* a seek has failed on an indexed, configured demuxer without a trapped error
C12_Witness ==
  /\ call.op = "seek"
  /\ call.status = "error"
  /\ Count > 0
  /\ demuxer.videoDecoderConfig
  /\ demuxer.error = NoError

\* C13 (parse errors are sticky): a getVideoDecoderConfig, seek or
\* readAllSamples call made once an error is trapped fails with that error.
C13_ParseErrorsSticky ==
  (call.op \in {"getVideoDecoderConfig", "seek", "readAllSamples"}
     /\ call.trapped # NoError)
    => call.status = "error" /\ call.error = call.trapped

\* presentation indices of the window a seek returned
WindowIndices == {call.samples[i].ptsIndex : i \in 1..Len(call.samples)}

SetMax(S) == CHOOSE x \in S : \A y \in S : y <= x
SetMin(S) == CHOOSE x \in S : \A y \in S : x <= y

\* presentation indices of the sync samples before / after a target
SyncBefore(target) == {i \in 0..(target - 1) : Samples[i + 1].is_sync}
SyncAfter(target) == {i \in (target + 1)..(Count - 1) : Samples[i + 1].is_sync}

\* C19 (non-sync seek window extent): when the target is not a sync sample
\* and a sync sample precedes it, the window holds exactly the samples with
\* presentation indices lastKeyframe through
\* min(max(nextKeyframe, targetFrame, lastKeyframe + Q), lastIndex), both
\* ends included, each once.
C19_NonSyncWindowExtent ==
  (SeekFoundTarget /\ ~Samples[call.ptsIndex + 1].is_sync
     /\ SyncBefore(call.ptsIndex) # {})
    => LET targetFrame == call.ptsIndex
           lastKeyframe == SetMax(SyncBefore(targetFrame))
           far == Max2(targetFrame, lastKeyframe + MIN_DECODER_QUEUE_SIZE)
           through == IF SyncAfter(targetFrame) = {} THEN far
                      ELSE Max2(SetMin(SyncAfter(targetFrame)), far)
       IN /\ WindowIndices = lastKeyframe..Min2(through, Count - 1)
          /\ Len(call.samples) = Cardinality(WindowIndices)

\* C20 (sync-target seek window): when the target is a sync sample, the
\* window is a run of consecutive presentation indices inside [0, lastIndex]
\* that contains the target and holds at most Q samples, and exactly Q when
\* the index holds at least Q samples and the target is at least Q/2 from
\* both ends.
C20_SyncWindow ==
  (SeekFoundTarget /\ Samples[call.ptsIndex + 1].is_sync)
    => /\ Len(call.samples) = Cardinality(WindowIndices)
       /\ WindowIndices # {}
       /\ WindowIndices = SetMin(WindowIndices)..SetMax(WindowIndices)
       /\ WindowIndices \subseteq 0..(Count - 1)
       /\ call.ptsIndex \in WindowIndices
       /\ Cardinality(WindowIndices) <= MIN_DECODER_QUEUE_SIZE
       /\ (/\ Count >= MIN_DECODER_QUEUE_SIZE
           /\ call.ptsIndex >= MIN_DECODER_QUEUE_SIZE \div 2
           /\ call.ptsIndex + MIN_DECODER_QUEUE_SIZE \div 2 <= Count - 1)
            => Cardinality(WindowIndices) = MIN_DECODER_QUEUE_SIZE

\* C25 (the seek window contains its target): whenever seek returns a
\* non-negative ptsIndex, the sample with that ptsIndex is one of the
\* returned samples, also when the target is the last sample of the file or
\* lies at or beyond lastKeyframe + Q.
C25_WindowContainsTarget ==
  SeekFoundTarget => call.ptsIndex \in WindowIndices

\* onReady ends: with a configuration, with a trapped error, or by throwing
ParsingFinishes == dpc # "done" /\ dpc' = "done"

\* C26 (pending configuration requests are all answered): every
\* getVideoDecoderConfig call pending when parsing finishes is settled at
\* that moment, resolved with the configuration on success and rejected with
\* the trapped error on a parse failure, however many are pending; none is
\* left to the 10 s timeout.
C26_PendingConfigCallsAnswered ==
  [][ParsingFinishes =>
       \A i \in 1..Len(configCalls) :
         configCalls[i].status = "pending" =>
           IF demuxer'.videoDecoderConfig
           THEN configCalls'[i].status = "resolved"
           ELSE /\ configCalls'[i].status = "rejected"
                /\ configCalls'[i].error = demuxer'.error]_vars

\* -------------------------------------------------------- claims: muxer

Tight(samples) ==
  \A i \in 1..Len(samples) :
    samples[i].offset = IF i = 1 THEN 0 ELSE samples[i - 1].offset + samples[i - 1].size

\* C3 (offset tightness): in each track the first sample has offset 0 and
\* every later sample starts where the sample before it ends.
C3_OffsetTightness == Tight(muxer.videoSamples) /\ Tight(muxer.audioSamples)

\* two video samples of different sizes, and an audio sample accumulated
\* after the audio chunk before it was dropped
C3_Witness ==
  /\ Len(muxer.videoSamples) >= 2
  /\ muxer.videoSamples[1].size # muxer.videoSamples[2].size
  /\ Len(muxer.audioSamples) = 1
  /\ muxer.audioSamples[1].dts > 0
  /\ muxer.pushedAudio = 2
  /\ Len(audioEncoder.queue) = 0
  /\ audioEncoder.state = "configured"

\* C7 (empty-input multiplex): a multiplexToBuffer call made with zero
\* accumulated video samples fails with the no-video-samples error, creates
\* no box and produces no buffer.
C7_EmptyInputFails ==
  (mux.pc = "done" /\ mux.result.videoAtCall = 0)
    => /\ mux.result.status = "error"
       /\ mux.result.error = NoVideoSamples
       /\ ~muxer.mp4box
       /\ ~mux.result.buffer

\* C7 as amended: a call that ends with zero accumulated video samples has
\* failed, created no box and produced no buffer; and when both flushes
\* resolved and no encoder error is trapped, the failure is the
\* no-video-samples error.
C7_EmptyAfterFlushFails ==
  (mux.pc = "done" /\ mux.result.videoAtEnd = 0)
    => /\ mux.result.status = "error"
       /\ ~muxer.mp4box
       /\ ~mux.result.buffer
       /\ (mux.result.flushed /\ muxer.encoderError = NoError)
            => mux.result.error = NoVideoSamples

\* the call was made with audio pending, the flushes delivered it, and the
\* call failed for want of video samples
C7_Witness ==
  /\ mux.pc = "done"
  /\ mux.result.error = NoVideoSamples
  /\ Len(muxer.audioSamples) > 0
  /\ Len(muxer.videoSamples) = 0

\* C14 (encoder failure is terminal): once an encoder error is trapped both
\* encoders are closed and hold no submitted frame, and a multiplexToBuffer
\* call made after that fails with the trapped error and produces no buffer.
C14_EncoderFailureTerminal ==
  muxer.encoderError # NoError =>
    /\ videoEncoder.state = "closed" /\ videoEncoder.queue = <<>>
    /\ audioEncoder.state = "closed" /\ audioEncoder.queue = <<>>
    /\ (mux.pc = "done" /\ mux.result.errorAtCall # NoError)
         => /\ mux.result.status = "error"
            /\ mux.result.error = mux.result.errorAtCall
            /\ ~mux.result.buffer

Numbered(samples) == \A i \in 1..Len(samples) : samples[i].number = i

\* C16 (sequence numbers): in each track the samples carry the numbers
\* 1, 2, 3, ... in accumulation order.
C16_SequenceNumbers == Numbered(muxer.videoSamples) /\ Numbered(muxer.audioSamples)

\* both tracks hold samples, and the first audio sample was accumulated from
\* the second chunk, the first one having been dropped
C16_Witness ==
  /\ Len(muxer.videoSamples) >= 2
  /\ Len(muxer.audioSamples) >= 1
  /\ muxer.audioSamples[1].dts > 0
  /\ muxer.audioSamples[1].number = 1

\* the audio encoder has just delivered its oldest pending chunk
AudioDelivered ==
  /\ audioEncoder.state = "configured"
  /\ Len(audioEncoder.queue) > 0
  /\ audioEncoder'.state = "configured"
  /\ audioEncoder'.queue = Tail(audioEncoder.queue)

\* C17 (dropped audio chunk): the callback of an audio chunk without a
\* duration leaves both sample sequences and the trapped error as they were
\* and closes nothing; a chunk with a duration is appended to the audio
\* sequence, also after a dropped one.
C17_DroppedAudioChunk ==
  [][/\ (AudioDelivered /\ audioEncoder'.lastDuration = 0)
          => /\ muxer'.audioSamples = muxer.audioSamples
             /\ muxer'.videoSamples = muxer.videoSamples
             /\ muxer'.encoderError = muxer.encoderError
             /\ videoEncoder' = videoEncoder
     /\ (AudioDelivered /\ audioEncoder'.lastDuration > 0)
          => /\ Len(muxer'.audioSamples) = Len(muxer.audioSamples) + 1
             /\ SubSeq(muxer'.audioSamples, 1, Len(muxer.audioSamples))
                  = muxer.audioSamples]_vars

\* a chunk without a duration was the last one delivered, after a chunk
\* that was accumulated, and the encoder is still configured
C17_Witness ==
  /\ audioEncoder.lastDuration = 0
  /\ audioEncoder.state = "configured"
  /\ Len(muxer.audioSamples) = 1
  /\ muxer.pushedAudio = 2
  /\ Len(audioEncoder.queue) = 0

\* C18 (no mutation after assembly begins): once multiplexToBuffer has been
\* invoked, neither sample sequence changes any more.
C18_NoMutationAfterAssembly ==
  [][mux.pc # "idle"
       => /\ muxer'.videoSamples = muxer.videoSamples
          /\ muxer'.audioSamples = muxer.audioSamples]_vars

\* the payloads of a sample sequence, one after the other
RECURSIVE Payloads(_)
Payloads(samples) ==
  IF samples = <<>> THEN <<>> ELSE Head(samples).data \o Payloads(Tail(samples))

\* where the i-th payload starts when the payloads lie one after the other
Position(samples, i) == TotalSize(SubSeq(samples, 1, i - 1))

\* the bytes a sample at offset `at` occupies in the media buffer
Range(at, sample) == (at + 1)..(at + sample.size)

\* multiplexToBuffer ends with the assembled file
Assembled == mux.pc # "done" /\ mux'.pc = "done" /\ mux'.result.status = "ok"

\* C21 (media-data layout): in the assembled output the media buffer is the
\* video payloads in accumulation order followed by the audio payloads in
\* accumulation order; video sample i occupies [offset, offset + size) and
\* audio sample j occupies [offset + videoRegionEnd, offset + videoRegionEnd +
\* size); these ranges are pairwise disjoint and cover the buffer; and each
\* chunk offset is the sample's position in the buffer plus mdatStartOffset.
C21_MediaDataLayout ==
  [][Assembled =>
       LET v == muxer'.videoSamples
           a == muxer'.audioSamples
           b == muxer'.boxes
           data == b.mdat.data
           videoRegionEnd == TotalSize(v)
           ranges == [i \in 1..(Len(v) + Len(a)) |->
                        IF i <= Len(v) THEN Range(v[i].offset, v[i])
                        ELSE Range(a[i - Len(v)].offset + videoRegionEnd, a[i - Len(v)])]
       IN
       /\ data = Payloads(v) \o Payloads(a)
       /\ \A i \in 1..Len(v) :
            /\ v[i].offset = Position(v, i)
            /\ SubSeq(data, v[i].offset + 1, v[i].offset + v[i].size) = v[i].data
            /\ b.video.stco.chunk_offsets[i] = Position(v, i) + muxer'.mdatStartOffset
       /\ \A j \in 1..Len(a) :
            /\ a[j].offset = Position(a, j)
            /\ SubSeq(data, a[j].offset + videoRegionEnd + 1,
                      a[j].offset + videoRegionEnd + a[j].size) = a[j].data
            /\ b.audio.stco.chunk_offsets[j] =
                 videoRegionEnd + Position(a, j) + muxer'.mdatStartOffset
       /\ Len(b.video.stco.chunk_offsets) = Len(v)
       /\ Len(b.audio.stco.chunk_offsets) = Len(a)
       /\ \A i, j \in DOMAIN ranges : i # j => ranges[i] \cap ranges[j] = {}
       /\ UNION {ranges[i] : i \in DOMAIN ranges} = 1..Len(data)]_vars

\* a file was assembled from video samples of different sizes and from audio
C21_Witness ==
  /\ mux.pc = "done"
  /\ mux.result.status = "ok"
  /\ Len(muxer.boxes.video.stsz.sample_sizes) >= 2
  /\ muxer.boxes.video.stsz.sample_sizes[1] # muxer.boxes.video.stsz.sample_sizes[2]
  /\ Len(muxer.boxes.audio.stsz.sample_sizes) >= 1
  /\ Len(muxer.boxes.mdat.data) >= 4

\* ftyp is 8 bytes of header, the major brand, the minor version and 4 bytes
\* for each compatible brand; the header of mdat is 8 bytes
FirstMediaByte(boxes) == 16 + 4 * Len(boxes.ftyp.compatible_brands) + 8

\* sum of the first n entries of a size table
RECURSIVE SumFirst(_, _)
SumFirst(sizes, n) == IF n = 0 THEN 0 ELSE sizes[n] + SumFirst(sizes, n - 1)

\* C22 (media-data start offset tracks the brand list): for every
\* compatible-brands list the file is assembled with, the start offset added
\* to each chunk offset is the distance from the start of the file to the
\* first media byte, 16 + 4 * (brands written into ftyp) + 8.
C22_StartOffsetTracksBrands ==
  mux.result.buffer =>
    LET b == muxer.boxes
        videoSizes == b.video.stsz.sample_sizes
        audioSizes == b.audio.stsz.sample_sizes
    IN
    /\ muxer.mdatStartOffset = FirstMediaByte(b)
    /\ \A i \in 1..Len(videoSizes) :
         b.video.stco.chunk_offsets[i] - SumFirst(videoSizes, i - 1) = FirstMediaByte(b)
    /\ \A j \in 1..Len(audioSizes) :
         b.audio.stco.chunk_offsets[j] - SumFirst(videoSizes, Len(videoSizes))
           - SumFirst(audioSizes, j - 1) = FirstMediaByte(b)

Ceil(a, b) == (a + b - 1) \div b

\* a track's tables declare n samples per chunk and hold one offset for each
\* chunk of n samples, that of the chunk's first sample; base is where the
\* track's first payload lies in the file
ChunkTable(track, n, base) ==
  LET sizes == track.stsz.sample_sizes IN
  /\ track.stsc.samples_per_chunk = <<n>>
  /\ Len(track.stco.chunk_offsets) = Ceil(Len(sizes), n)
  /\ \A k \in 1..Min2(Len(track.stco.chunk_offsets), Ceil(Len(sizes), n)) :
       track.stco.chunk_offsets[k] = base + SumFirst(sizes, (k - 1) * n)

\* C23 (chunk tables agree with the samples-per-chunk setting): for each
\* track and every configured samples-per-chunk value n >= 1, the
\* sample-to-chunk entry declares n samples per chunk, and there are
\* ceil(sampleCount / n) chunk offsets, each that of its chunk's first sample.
C23_ChunkTables ==
  mux.result.buffer =>
    LET b == muxer.boxes IN
    /\ ChunkTable(b.video, muxer.videoSamplesPerChunk, muxer.mdatStartOffset)
    /\ ChunkTable(b.audio, muxer.audioSamplesPerChunk,
                  muxer.mdatStartOffset
                    + SumFirst(b.video.stsz.sample_sizes, Len(b.video.stsz.sample_sizes)))

\* the frames pushVideoFrame has passed to encode(), with the keyFrame option
Requested == videoEncoder.queue

\* the interval [k * I, (k + 1) * I) a timestamp lies in
KeyframeSlot(timestamp) == timestamp \div secToUs(keyframeIntevalSec)

\* C24 (keyframe insertion at the configured interval): for frames pushed
\* with non-decreasing timestamps starting at 0, the first frame is requested
\* as a keyframe and at most one frame is requested as a keyframe in any
\* interval [k * I, (k + 1) * I), also when consecutive frames are more than
\* I apart.
C24_KeyframeInterval ==
  /\ Len(Requested) > 0 => Requested[1].keyFrame
  /\ \A i, j \in 1..Len(Requested) :
       (i < j /\ Requested[i].keyFrame /\ Requested[j].keyFrame)
         => KeyframeSlot(Requested[i].timestamp) # KeyframeSlot(Requested[j].timestamp)

\* ------------------------------------------------- claims: isConfigured

Settled == {"resolved", "closedError", "timeout"}

\* C15 (a configuration wait always settles): a check that reads the state
\* configured resolves the wait, one that reads closed rejects it with the
\* closed error also when the deadline has passed, one that reads neither
\* rejects it with the timeout error once the deadline is reached and polls
\* again before that; and a wait that polls is settled in the end.
C15_WaitSettles ==
  /\ [](wait.seen = "none" <=> wait.pc = "idle")
  /\ [](wait.seen = "configured" => wait.pc = "resolved")
  /\ [](wait.seen = "closed" => wait.pc = "closedError")
  /\ []((wait.seen = "unconfigured" /\ wait.checkedAt >= wait.deadline)
          => wait.pc = "timeout")
  /\ []((wait.seen = "unconfigured" /\ wait.checkedAt < wait.deadline)
          => wait.pc = "polling")
  /\ (wait.pc = "polling" ~> wait.pc \in Settled)

\* a poll found the codec closed after the deadline had passed, and the wait
\* was rejected with the closed error
C15_Witness ==
  /\ wait.pc = "closedError"
  /\ wait.checkedAt > wait.deadline
  /\ wait.deadline > 0

====
